---- MODULE Spec2Model ----
(***************************************************************************)
(* Model of lab_exporter.py: main() as a single thread of control with a   *)
(* program counter, the process-wide `running` flag set by signal_handler, *)
(* the local state file, and the three HTTP exchanges (register, config,   *)
(* report).  Server responses and the signal are the environment's choice. *)
(***************************************************************************)
EXTENDS Integers, FiniteSets, Sequences, TLC

\* ---------------------------------------------------------------- bounds

\* retry_count is only ever compared with RETRY_WARN_AFTER; it is counted
\* exactly up to MaxRetry and held there.
MaxRetry == 62

\* configVersion values the server may return: -VersionSpan .. VersionSpan.
VersionSpan == 2

\* Cap of the history counter of registration requests.
MaxRegRequests == 2

\* Cap of the per-tick history counters of report and refresh requests.
MaxTickRequests == 2

\* Cap of the history counter of net_tracker.update calls.
MaxUpdates == 2

\* Byte counters are multiples of 62500 bytes (half a megabit), up to MaxCount of them.
MaxCount == 1

\* time.time() returns a value in 0 .. MaxTime.
MaxTime == 1

\* ------------------------------------------------------ program constants

DEFAULT_REPORT_INTERVAL == 5

\* time.sleep(5) between attempts of the initial config fetch.
RETRY_DELAY == 5

\* `if retry_count > 60` : the "still waiting" warning.
RETRY_WARN_AFTER == 60

\* ------------------------------------------------------------ value sets

\* A string-valued key that a dict / JSON object does not have.
Absent == "absent"

\* An optional non-string value (a missing key, Python's None) is the empty
\* set; a present value v is {v}.
None == {}
Some(v) == {v}
Val(o) == CHOOSE v \in o : TRUE

\* The value of --server after rstrip("/").
server_url == "https://x"

\* Tokens a local state file may already hold, and tokens the server issues.
\* "" is a token value Python treats as false.
StoredTokens == {Absent, "", "t0"}
IssuedTokens == {"t1"}

\* The file on disk: missing, empty (opened for writing, nothing written
\* yet), or holding a complete JSON document with optional keys.
Doc(t, s) == [kind |-> "json", token |-> t, server |-> s]
NoFile == [kind |-> "nofile", token |-> Absent, server |-> Absent]
Truncated == [kind |-> "truncated", token |-> Absent, server |-> Absent]

\* What the file may hold when the process starts.
InitialFiles ==
    { NoFile, Truncated,
      Doc("", "https://old"),
      Doc("t0", "https://old"),
      Doc("t0", server_url) }

\* MonitorConfig as returned by GET /api/monitoring/config: a JSON object
\* whose keys are optional.
IntervalValues == {1, 2}
NicFilters == { {"eth0"} }
Configs ==
    [reportIntervalSec : {None} \cup {Some(i) : i \in IntervalValues},
     nicNames : {None} \cup {Some(n) : n \in NicFilters}]

\* monitor_config: dict = {}
EmptyConfig == [reportIntervalSec |-> None, nicNames |-> None]

\* --interval: None when not given, otherwise an int (0 is accepted by argparse).
ArgsIntervals == {None, Some(0), Some(3)}

Versions == (0 - VersionSpan)..VersionSpan

\* HTTP statuses the model distinguishes; "error" is a requests.RequestException.
Statuses == {"200", "401", "409", "500"}
TransportError == "error"

\* A registration response: status plus the token field of its JSON body.
RegisterResponses ==
    [status : {"200"}, token : IssuedTokens \cup {Absent}]
        \cup [status : (Statuses \ {"200"}) \cup {TransportError}, token : {Absent}]

\* A config response: status plus the JSON body.
NoConfigResp == [status |-> "none", config |-> EmptyConfig]
ConfigResponses ==
    [status : {"200"}, config : Configs]
        \cup [status : (Statuses \ {"200"}) \cup {TransportError}, config : {EmptyConfig}]

\* A report response: status plus the configVersion field of its JSON body.
NoResp == [status |-> "none", configVersion |-> None]
ReportResponses ==
    [status : {"200"}, configVersion : {None} \cup {Some(v) : v \in Versions}]
        \cup [status : (Statuses \ {"200"}) \cup {TransportError}, configVersion : {None}]

Min(a, b) == IF a < b THEN a ELSE b

\* Interfaces psutil may report besides the loopback "lo".
EthNics == {"eth0", "eth1"}

\* Values of bytes_recv / bytes_sent, and of time.time().
Counters == {k * 62500 : k \in 0..MaxCount}
Times == 0..MaxTime

\* bytes_sent takes one of two values; the code treats it exactly as bytes_recv.
TxCounters == {0, 62500}

\* psutil.net_io_counters(pernic=True) as update looks at it: for each of
\* the snapshot's names its counters, or None when the interface is not
\* reported.
NetCounters(names) ==
    [names -> {None} \cup {Some(c) : c \in [rx : Counters, tx : TxCounters]}]

\* The interfaces psutil.net_io_counters reports to collect_snapshot: the
\* loopback and eth1 always, eth0 when it is up.
PresentNics == { {"lo"} \cup EthNics, {"lo", "eth1"} }

\* The configs as far as the tracker can tell them apart (nicNames only).
TrackerConfigs == { c \in Configs : c.reportIntervalSec = None }

\* self._prev = {} : no interface has a previous sample.
NoSample == [has |-> FALSE, rx |-> 0, tx |-> 0, fresh |-> FALSE]
EmptyPrev == [n \in EthNics |-> NoSample]

\* A snapshot before collect_snapshot has ever run.
NoSnapshot ==
    [nics |-> [n \in {} |-> 0], networkRxMbps |-> 0, networkTxMbps |-> 0, at |-> 0]

\* ------------------------------------------------------------- variables

VARIABLES
    pc,                     \* position of main()
    running,                \* the global `running`
    file,                   \* the local state file at config_path
    args_interval,          \* args.interval
    local_cfg,              \* main: local_cfg
    token,                  \* main: token
    monitor_config,         \* main: monitor_config
    retry_count,            \* main: retry_count
    interval,               \* main: interval
    tracker_initialized,    \* net_tracker._initialized (FALSE before construction)
    known_config_version,   \* main: known_config_version
    need_config_refresh,    \* main: need_config_refresh
    sleep_left,             \* time still to pass in the current time.sleep
    tracker_prev,           \* net_tracker._prev, each entry tagged with whether
                            \* the latest update call wrote it
    tracker_prev_time,      \* net_tracker._prev_time
    snapshot,               \* the snapshot the latest update call annotated
    srv_config,             \* the server's MonitorConfig (LiveSpec only)
    srv_version,            \* the server's configVersion (LiveSpec only)
    srv_frozen,             \* the server's config and version no longer change
    \* history variables (not read by any action's guard or update of program state)
    file0,                  \* the file as it was when the process started
    reg_requests,           \* registration requests sent so far
    reg_result,             \* how the registration exchange ended
    cfg_result,             \* how the last initial-config attempt ended
    resp,                   \* this tick's report response
    recorded,               \* configVersion of the last successful report of an earlier tick
    tick_reports,           \* report requests sent in this tick
    tick_refreshes,         \* refresh requests sent in this tick
    refresh_result,         \* what this tick's refresh fetched
    tracker_updates         \* net_tracker.update calls so far (held at MaxUpdates)

vars == << pc, running, file, args_interval, local_cfg, token, monitor_config,
           retry_count, interval, tracker_initialized, known_config_version,
           need_config_refresh, sleep_left, file0, reg_requests, reg_result,
           cfg_result, resp, recorded, tick_reports, tick_refreshes, refresh_result,
           tracker_updates, tracker_prev, tracker_prev_time, snapshot,
           srv_config, srv_version, srv_frozen >>

\* The tracker's sample state and output.  Spec carries the tracker only as
\* tracker_initialized and tracker_updates; its arithmetic is TrackerSpec's.
trackerVars == << tracker_prev, tracker_prev_time, snapshot >>

\* The server as LiveSpec describes it.  In Spec every response is any
\* member of its response set and these stay as Init leaves them.
serverVars == << srv_config, srv_version, srv_frozen >>

programVars == << local_cfg, token, monitor_config, retry_count, interval,
                  tracker_initialized, tracker_updates, known_config_version, need_config_refresh,
                  sleep_left >>

historyVars == << reg_requests, reg_result, cfg_result, resp, recorded,
                  tick_reports, tick_refreshes, refresh_result >>

\* Process has ended: sys.exit(1), an uncaught exception, or a normal return.
Terminated == {"exit1", "crashed", "stopped"}

\* ------------------------------------------------------------- helpers

\* Python truth value of `token` (None and "" are false).
Truthy(t) == t # Absent /\ t # ""

\* load_local_config: {} when the file does not exist, else json.load.
load_local_config(f) == [token |-> f.token, server |-> f.server]

\* monitor_config.get("reportIntervalSec", DEFAULT_REPORT_INTERVAL)
GetReportInterval(cfg) ==
    IF cfg.reportIntervalSec = None THEN DEFAULT_REPORT_INTERVAL ELSE Val(cfg.reportIntervalSec)

\* args.interval or monitor_config.get(...): None and 0 are both false.
InitialInterval(ai, cfg) ==
    IF ai # None /\ ai # Some(0) THEN Val(ai) ELSE GetReportInterval(cfg)

\* data.get("configVersion", 0)
ServerVersion(r) == IF r.configVersion = None THEN 0 ELSE Val(r.configVersion)

\* ------------------------------------------------------------------ init

ProcessInit ==
    /\ pc = "load"
    /\ running = TRUE
    /\ file \in InitialFiles
    /\ file0 = file
    /\ args_interval \in ArgsIntervals
    /\ local_cfg = [token |-> Absent, server |-> Absent]
    /\ token = Absent
    /\ monitor_config = EmptyConfig
    /\ retry_count = 0
    /\ interval = 0
    /\ tracker_initialized = FALSE
    /\ known_config_version = -1
    /\ need_config_refresh = FALSE
    /\ sleep_left = 0
    /\ reg_requests = 0
    /\ reg_result = "none"
    /\ cfg_result = "none"
    /\ resp = NoResp
    /\ recorded = None
    /\ tick_reports = 0
    /\ tick_refreshes = 0
    /\ refresh_result = NoConfigResp
    /\ tracker_updates = 0

\* NetworkRateTracker.__init__, and no snapshot collected yet.
FreshTracker ==
    /\ tracker_prev = EmptyPrev
    /\ tracker_prev_time = 0
    /\ snapshot = NoSnapshot

\* Spec does not describe the server.
ServerUnmodelled ==
    /\ srv_config = EmptyConfig
    /\ srv_version = 0
    /\ srv_frozen = FALSE

Init == ProcessInit /\ FreshTracker /\ ServerUnmodelled

\* --------------------------------------------------------------- signal

\* signal_handler: SIGINT / SIGTERM delivered to the live process.
signal_handler ==
    /\ pc \notin Terminated
    /\ running' = FALSE
    /\ UNCHANGED << pc, file, args_interval, file0, trackerVars, serverVars >>
    /\ UNCHANGED programVars
    /\ UNCHANGED historyVars

\* ------------------------------------------------- startup and registration

\* main, "Load local config": load_local_config and token = local_cfg.get("token").
\* json.load of an empty file raises, and nothing in main catches it.
LoadLocalConfig ==
    /\ pc = "load"
    /\ IF file.kind = "truncated"
       THEN /\ pc' = "crashed"
            /\ UNCHANGED << local_cfg, token >>
       ELSE /\ local_cfg' = load_local_config(file)
            /\ token' = local_cfg'.token
            /\ pc' = "step2"
    /\ UNCHANGED << running, file, args_interval, file0, trackerVars, serverVars, monitor_config, retry_count,
                    interval, tracker_initialized, tracker_updates, known_config_version,
                    need_config_refresh, sleep_left >>
    /\ UNCHANGED historyVars

\* main, Step 2: `if not token:` sends the registration request, otherwise
\* main goes on to Step 3.
RegisterIfNoToken ==
    /\ pc = "step2"
    /\ IF ~Truthy(token)
       THEN /\ pc' = "reg_req"
            /\ reg_requests' = Min(reg_requests + 1, MaxRegRequests)
       ELSE /\ pc' = "cfg_top"
            /\ UNCHANGED reg_requests
    /\ UNCHANGED << running, file, args_interval, file0, trackerVars, serverVars >>
    /\ UNCHANGED programVars
    /\ UNCHANGED << reg_result, cfg_result, resp, recorded, tick_reports,
                    tick_refreshes, refresh_result >>

\* Variant of RegisterOutcome: a failed registration is tried again.
RegisterOutcome_Retry(r) ==
    IF r.status = "200"
    THEN IF r.token # Absent THEN "save_open" ELSE "crashed"
    ELSE "step2"

\* Variant of RegisterOutcome: 409 is logged and main carries on to Step 3.
RegisterOutcome_IgnoreConflict(r) ==
    IF r.status = "200"
    THEN IF r.token # Absent THEN "save_open" ELSE "crashed"
    ELSE IF r.status = "409" THEN "cfg_top"
    ELSE "exit1"

\* Where main goes after the registration response r: on to save the token
\* (200 with a token), an uncaught KeyError (200 without one), or sys.exit(1).
RegisterOutcome(r) ==
    IF r.status = "200"
    THEN IF r.token # Absent THEN "save_open" ELSE "crashed"
    ELSE "exit1"

\* main, Step 2: the response to POST /api/monitoring/register.
RegisterResponse ==
    /\ pc = "reg_req"
    /\ \E r \in RegisterResponses :
        /\ pc' = RegisterOutcome(r)
        /\ reg_result' = r.status
        /\ IF r.status = "200" /\ r.token # Absent
           THEN /\ token' = r.token
                /\ local_cfg' = [token |-> r.token, server |-> server_url]
           ELSE UNCHANGED << token, local_cfg >>
    /\ UNCHANGED << running, file, args_interval, file0, trackerVars, serverVars, monitor_config, retry_count,
                    interval, tracker_initialized, tracker_updates, known_config_version,
                    need_config_refresh, sleep_left >>
    /\ UNCHANGED << reg_requests, cfg_result, resp, recorded, tick_reports,
                    tick_refreshes, refresh_result >>

\* save_local_config: open(path, "w") truncates the file ...
SaveOpen ==
    /\ pc = "save_open"
    /\ file' = Truncated
    /\ pc' = "save_dump"
    /\ UNCHANGED << running, args_interval, file0, trackerVars, serverVars >>
    /\ UNCHANGED programVars
    /\ UNCHANGED historyVars

\* ... or raises OSError (not caught by main), leaving the file as it was.
SaveOpenFails ==
    /\ pc = "save_open"
    /\ pc' = "crashed"
    /\ UNCHANGED << running, file, args_interval, file0, trackerVars, serverVars >>
    /\ UNCHANGED programVars
    /\ UNCHANGED historyVars

\* Variant of SaveDump: the token is written without the server URL.
SaveDump_TokenOnly ==
    /\ pc = "save_dump"
    /\ file' = Doc(local_cfg.token, Absent)
    /\ pc' = "cfg_top"
    /\ UNCHANGED << running, args_interval, file0, trackerVars, serverVars >>
    /\ UNCHANGED programVars
    /\ UNCHANGED historyVars

\* save_local_config: json.dump and the close that ends the `with` block.
SaveDump ==
    /\ pc = "save_dump"
    /\ file' = Doc(local_cfg.token, local_cfg.server)
    /\ pc' = "cfg_top"
    /\ UNCHANGED << running, args_interval, file0, trackerVars, serverVars >>
    /\ UNCHANGED programVars
    /\ UNCHANGED historyVars

\* save_local_config: the write raises OSError, the file stays empty.
SaveDumpFails ==
    /\ pc = "save_dump"
    /\ pc' = "crashed"
    /\ UNCHANGED << running, file, args_interval, file0, trackerVars, serverVars >>
    /\ UNCHANGED programVars
    /\ UNCHANGED historyVars

\* ------------------------------------------------- initial config fetch

\* Variant of LoopGuard: `while True:`.
LoopGuard_Always(r) == TRUE

\* `while running:` (both loops of main).
LoopGuard(r) == r

\* Variant of ConfigFetchOutcome: gives up once the warning threshold is reached.
ConfigFetchOutcome_GiveUp(r, n) ==
    IF r.status = "200" THEN "break"
    ELSE IF r.status = "401" \/ n >= RETRY_WARN_AFTER THEN "exit1"
    ELSE "retry"

\* What an attempt of the initial config fetch does with response r after n
\* earlier failures (n decides only whether the warning is logged).
ConfigFetchOutcome(r, n) ==
    IF r.status = "200" THEN "break"
    ELSE IF r.status = "401" THEN "exit1"
    ELSE "retry"

\* retry_count += 1, counted exactly up to MaxRetry.
NextRetryCount(n) == Min(n + 1, MaxRetry)

\* main, Step 3: top of `while running:`; a true guard sends GET /config,
\* a false one falls through to `if not running: return`.
ConfigLoopTop ==
    /\ pc = "cfg_top"
    /\ IF LoopGuard(running)
       THEN /\ pc' = "cfg_req"
            /\ UNCHANGED retry_count
       ELSE /\ pc' = "stopped"
            /\ retry_count' = 0
    /\ UNCHANGED << running, file, args_interval, file0, trackerVars, serverVars, local_cfg, token,
                    monitor_config, interval, tracker_initialized, tracker_updates,
                    known_config_version, need_config_refresh, sleep_left >>
    /\ UNCHANGED historyVars

\* main, Step 3: the response to GET /api/monitoring/config.  200 stores
\* the config and breaks; after the loop `if not running: return`, else the
\* report interval is determined.  401 exits.  Anything else counts a retry
\* and starts time.sleep(5).  retry_count is not read after the loop and is
\* cleared when the loop is left.
ConfigResponse ==
    /\ pc = "cfg_req"
    /\ \E r \in ConfigResponses :
        /\ cfg_result' = r.status
        /\ CASE ConfigFetchOutcome(r, retry_count) = "break" ->
                    /\ monitor_config' = r.config
                    /\ retry_count' = 0
                    /\ IF running
                       THEN /\ interval' = InitialInterval(args_interval, r.config)
                            /\ pc' = "prime"
                       ELSE /\ pc' = "stopped"
                            /\ UNCHANGED interval
                    /\ UNCHANGED sleep_left
             [] ConfigFetchOutcome(r, retry_count) = "exit1" ->
                    /\ pc' = "exit1"
                    /\ retry_count' = 0
                    /\ UNCHANGED << monitor_config, interval, sleep_left >>
             [] OTHER ->
                    /\ retry_count' = NextRetryCount(retry_count)
                    /\ sleep_left' = RETRY_DELAY
                    /\ pc' = "cfg_sleep"
                    /\ UNCHANGED << monitor_config, interval >>
    /\ UNCHANGED << running, file, args_interval, file0, trackerVars, serverVars, local_cfg, token,
                    tracker_initialized, tracker_updates, known_config_version, need_config_refresh >>
    /\ UNCHANGED << reg_requests, reg_result, resp, recorded, tick_reports,
                    tick_refreshes, refresh_result >>

\* time.sleep(5): one unit of the delay passes.  A signal handler that
\* returns normally does not end the sleep: it resumes for the time left.
ConfigRetrySleep ==
    /\ pc = "cfg_sleep"
    /\ sleep_left > 0
    /\ sleep_left' = sleep_left - 1
    /\ UNCHANGED << pc, running, file, args_interval, file0, trackerVars, serverVars, local_cfg, token,
                    monitor_config, retry_count, interval, tracker_initialized, tracker_updates,
                    known_config_version, need_config_refresh >>
    /\ UNCHANGED historyVars

\* time.sleep(5) returns; back to the top of the loop.
ConfigRetryWake ==
    /\ pc = "cfg_sleep"
    /\ sleep_left = 0
    /\ pc' = "cfg_top"
    /\ UNCHANGED << running, file, args_interval, file0, trackerVars, serverVars >>
    /\ UNCHANGED programVars
    /\ UNCHANGED historyVars

\* ------------------------------------------------------------ report loop

\* Variant of PrimeTracker: the tracker is constructed but not primed.
PrimeTracker_Skipped ==
    /\ pc = "prime"
    /\ tracker_initialized' = FALSE
    /\ tracker_updates' = 0
    /\ known_config_version' = -1
    /\ pc' = "loop_top"
    /\ UNCHANGED << running, file, args_interval, file0, trackerVars, serverVars, local_cfg, token,
                    monitor_config, retry_count, interval, need_config_refresh,
                    sleep_left >>
    /\ UNCHANGED historyVars

\* main: net_tracker = NetworkRateTracker(); the throwaway update on the
\* prime snapshot; known_config_version = -1.  (What update computes is
\* NetworkRateTracker_update, exercised by TrackerSpec.)
PrimeTracker ==
    /\ pc = "prime"
    /\ tracker_initialized' = TRUE
    /\ tracker_updates' = 1
    /\ known_config_version' = -1
    /\ pc' = "loop_top"
    /\ UNCHANGED << running, file, args_interval, file0, trackerVars, serverVars, local_cfg, token,
                    monitor_config, retry_count, interval, need_config_refresh,
                    sleep_left >>
    /\ UNCHANGED historyVars

\* The version recorded by successful reports up to and including response r.
Recorded(prev, r) == IF r.status = "200" THEN Some(ServerVersion(r)) ELSE prev

\* main, Step 4: top of `while running:`; a true guard starts a tick
\* (need_config_refresh = False, collect_snapshot, net_tracker.update, POST
\* /report), a false one leaves the loop ("Exporter stopped.").
ReportLoopTop ==
    /\ pc = "loop_top"
    /\ IF LoopGuard(running)
       THEN /\ need_config_refresh' = FALSE
            /\ tracker_initialized' = TRUE
            /\ tracker_updates' = Min(tracker_updates + 1, MaxUpdates)
            /\ pc' = "report_req"
            /\ tick_reports' = 1
            /\ tick_refreshes' = 0
            /\ recorded' = Recorded(recorded, resp)
            /\ resp' = NoResp
            /\ refresh_result' = NoConfigResp
       ELSE /\ pc' = "stopped"
            /\ UNCHANGED << need_config_refresh, tracker_initialized, tracker_updates, tick_reports,
                            tick_refreshes, recorded, resp, refresh_result >>
    /\ UNCHANGED << running, file, args_interval, file0, trackerVars, serverVars, local_cfg, token,
                    monitor_config, retry_count, interval, known_config_version,
                    sleep_left >>
    /\ UNCHANGED << reg_requests, reg_result, cfg_result >>

\* `if known_config_version < 0: ... elif server_version != known_config_version:`
\* whether a successful report with version sv sets need_config_refresh.
VersionChanged(known, sv) == known >= 0 /\ sv # known

\* Variant of ReportOutcome: a 401 is handled like any other failed report.
ReportOutcome_Ignore401(r) ==
    IF r.status = "200" THEN "ok" ELSE "dropped"

\* Variant of ReportOutcome: every response other than 401 is read as a success.
ReportOutcome_OnlyRejects401(r) ==
    IF r.status = "401" THEN "exit1" ELSE "ok"

\* What a tick does with report response r.
ReportOutcome(r) ==
    IF r.status = "200" THEN "ok"
    ELSE IF r.status = "401" THEN "exit1"
    ELSE "dropped"

\* main, Step 4: the response to POST /api/monitoring/report, up to either
\* the refresh request or the start of time.sleep(interval).
ReportResponse ==
    /\ pc = "report_req"
    /\ \E r \in ReportResponses :
        /\ resp' = r
        /\ CASE ReportOutcome(r) = "ok" ->
                    /\ known_config_version' = ServerVersion(r)
                    /\ need_config_refresh' =
                            VersionChanged(known_config_version, ServerVersion(r))
             [] ReportOutcome(r) = "exit1" ->
                    /\ UNCHANGED << known_config_version, need_config_refresh >>
             [] OTHER ->
                    /\ UNCHANGED << known_config_version, need_config_refresh >>
        /\ IF ReportOutcome(r) = "exit1"
           THEN /\ pc' = "exit1"
                /\ UNCHANGED << sleep_left, tick_refreshes >>
           ELSE IF need_config_refresh'
           THEN /\ pc' = "refresh_req"
                /\ tick_refreshes' = Min(tick_refreshes + 1, MaxTickRequests)
                /\ UNCHANGED sleep_left
           ELSE /\ pc' = "sleep"
                /\ sleep_left' = interval
                /\ UNCHANGED tick_refreshes
    /\ UNCHANGED << running, file, args_interval, file0, trackerVars, serverVars, local_cfg, token,
                    monitor_config, retry_count, interval, tracker_initialized, tracker_updates >>
    /\ UNCHANGED << reg_requests, reg_result, cfg_result, recorded, tick_reports,
                    refresh_result >>

\* Variant of ApplyRefresh: monitor_config.update(new_config), keys the new
\* config lacks keep their old values.
ApplyRefresh_Merge(cur, new) ==
    [reportIntervalSec |->
        IF new.reportIntervalSec # None THEN new.reportIntervalSec ELSE cur.reportIntervalSec,
     nicNames |-> IF new.nicNames # None THEN new.nicNames ELSE cur.nicNames]

\* `if new_config != monitor_config: monitor_config = new_config`
ApplyRefresh(cur, new) == IF new # cur THEN new ELSE cur

\* Variant of RefreshInterval: the interval chosen at startup is kept.
RefreshInterval_Keep(cur, new, ai, iv) == iv

\* The interval after a refresh fetched `new` while `cur` was in use.
RefreshInterval(cur, new, ai, iv) ==
    IF new # cur /\ ai = None /\ GetReportInterval(new) # iv
    THEN GetReportInterval(new)
    ELSE iv

\* Variant of RefreshNextPc: a 401 on the refresh exits like a 401 elsewhere.
RefreshNextPc_Exit401(r) == IF r.status = "401" THEN "exit1" ELSE "sleep"

\* Where main goes after the refresh response r: no branch of the refresh
\* block exits or raises, main always reaches time.sleep(interval).
RefreshNextPc(r) == "sleep"

\* main, "Refresh config when server signals a version change": the response
\* to the one GET /config, then time.sleep(interval) starts.
RefreshResponse ==
    /\ pc = "refresh_req"
    /\ \E r \in ConfigResponses :
        /\ refresh_result' = r
        /\ IF r.status = "200"
           THEN /\ monitor_config' = ApplyRefresh(monitor_config, r.config)
                /\ interval' = RefreshInterval(monitor_config, r.config, args_interval, interval)
           ELSE UNCHANGED << monitor_config, interval >>
        /\ sleep_left' = interval'
        /\ pc' = RefreshNextPc(r)
    /\ UNCHANGED << running, file, args_interval, file0, trackerVars, serverVars, local_cfg, token,
                    retry_count, tracker_initialized, tracker_updates, known_config_version,
                    need_config_refresh >>
    /\ UNCHANGED << reg_requests, reg_result, cfg_result, resp, recorded,
                    tick_reports, tick_refreshes >>

\* time.sleep(interval): one unit of the interval passes (a signal handler
\* that returns normally does not end the sleep).
ReportSleep ==
    /\ pc = "sleep"
    /\ sleep_left > 0
    /\ sleep_left' = sleep_left - 1
    /\ UNCHANGED << pc, running, file, args_interval, file0, trackerVars, serverVars, local_cfg, token,
                    monitor_config, retry_count, interval, tracker_initialized, tracker_updates,
                    known_config_version, need_config_refresh >>
    /\ UNCHANGED historyVars

\* time.sleep(interval) returns; back to the top of the loop.
ReportWake ==
    /\ pc = "sleep"
    /\ sleep_left = 0
    /\ pc' = "loop_top"
    /\ UNCHANGED << running, file, args_interval, file0, trackerVars, serverVars >>
    /\ UNCHANGED programVars
    /\ UNCHANGED historyVars

\* ------------------------------------------------------------ specification

Next ==
    \/ signal_handler
    \/ LoadLocalConfig
    \/ RegisterIfNoToken
    \/ RegisterResponse
    \/ SaveOpen
    \/ SaveOpenFails
    \/ SaveDump
    \/ SaveDumpFails
    \/ ConfigLoopTop
    \/ ConfigResponse
    \/ ConfigRetrySleep
    \/ ConfigRetryWake
    \/ PrimeTracker
    \/ ReportLoopTop
    \/ ReportResponse
    \/ RefreshResponse
    \/ ReportSleep
    \/ ReportWake

Spec == Init /\ [][Next]_vars

TypeOK ==
    /\ pc \in {"load", "step2", "reg_req", "save_open", "save_dump", "cfg_top",
               "cfg_req", "cfg_sleep", "prime", "loop_top", "report_req",
               "refresh_req", "sleep"} \cup Terminated
    /\ running \in BOOLEAN
    /\ monitor_config \in Configs
    /\ retry_count \in 0..MaxRetry
    /\ known_config_version \in Versions \cup {-1}
    /\ sleep_left \in 0..DEFAULT_REPORT_INTERVAL

\* ---------------------------------------------------- network rate tracker

\* Rates are kept in tenths of a Mbps: round(x, 1) yields a multiple of 0.1.

\* round(num / den * 10) for num >= 0, den > 0, ties to the even neighbour
\* as Python's round does.
RoundTenths(num, den) ==
    LET q == (10 * num) \div den
        r == (10 * num) % den
    IN  IF 2 * r < den THEN q
        ELSE IF 2 * r > den THEN q + 1
        ELSE IF q % 2 = 0 THEN q ELSE q + 1

\* Variant of RateMbps: round(x, 1) without max(x, 0).
RateMbps_Unclamped(cur, prev, dt) ==
    IF cur >= prev
    THEN RoundTenths((cur - prev) * 8, dt * 1000000)
    ELSE 0 - RoundTenths((prev - cur) * 8, dt * 1000000)

\* round(max(((cur - prev) * 8) / (dt * 1_000_000), 0), 1), for dt > 0.
RateMbps(cur, prev, dt) ==
    IF (cur - prev) * 8 > 0
    THEN RoundTenths((cur - prev) * 8, dt * 1000000)
    ELSE RoundTenths(0, dt * 1000000)

\* collect_snapshot, "Network - per-NIC": the names listed in the snapshot,
\* given the interfaces psutil reports and the config's nicNames filter.
SnapshotNics(cfg, present) ==
    { n \in present : n # "lo" /\ (cfg.nicNames = None \/ n \in Val(cfg.nicNames)) }

\* dt = now - self._prev_time if self._initialized and (now - self._prev_time) > 0 else 0
ElapsedTime(initialized, prev_time, now) ==
    IF initialized /\ now - prev_time > 0 THEN now - prev_time ELSE 0

\* The body of `for nic in snapshot.get("nics", [])` for the interface n:
\* the rates written into the snapshot entry (the placeholders 0.0 when
\* there is no counter), with the counters read, whether the previous
\* sample used was older than the preceding call, and whether bytes_recv
\* was below that sample.
AnnotateNic(n, prev, counters, dt) ==
    IF counters[n] = None
    THEN [rxMbps |-> 0, txMbps |-> 0, cur |-> None, stale |-> FALSE, dropped |-> FALSE]
    ELSE IF dt > 0 /\ prev[n].has
    THEN [rxMbps |-> RateMbps(Val(counters[n]).rx, prev[n].rx, dt),
          txMbps |-> RateMbps(Val(counters[n]).tx, prev[n].tx, dt),
          cur |-> counters[n], stale |-> ~prev[n].fresh,
          dropped |-> Val(counters[n]).rx < prev[n].rx]
    ELSE [rxMbps |-> 0, txMbps |-> 0, cur |-> counters[n], stale |-> FALSE,
          dropped |-> FALSE]

\* total_rx / total_tx: the rates of the entries that had a counter, added up.
RECURSIVE SumRx(_, _)
SumRx(nics, S) ==
    IF S = {} THEN 0
    ELSE LET n == CHOOSE x \in S : TRUE
         IN  (IF nics[n].cur = None THEN 0 ELSE nics[n].rxMbps) + SumRx(nics, S \ {n})

RECURSIVE SumTx(_, _)
SumTx(nics, S) ==
    IF S = {} THEN 0
    ELSE LET n == CHOOSE x \in S : TRUE
         IN  (IF nics[n].cur = None THEN 0 ELSE nics[n].txMbps) + SumTx(nics, S \ {n})

\* Variant of RoundTotal: round(total) without the digits argument.
RoundTotal_NoDigits(t) == ((t + 5) \div 10) * 10

\* round(total_rx, 1) of a sum of multiples of 0.1.
RoundTotal(t) == t

\* Variant of NextPrev: counters are recorded only on a tick that has a rate window.
NextPrev_OnlyWhenRated(prev, listed, counters, dt) ==
    [n \in EthNics |->
        IF dt > 0 /\ n \in listed /\ counters[n] # None
        THEN [has |-> TRUE, rx |-> Val(counters[n]).rx, tx |-> Val(counters[n]).tx,
              fresh |-> TRUE]
        ELSE [prev[n] EXCEPT !.fresh = FALSE]]

\* self._prev after the loop: `self._prev[name] = {...}` for every listed
\* interface that had a counter; every other entry stays as it was.
NextPrev(prev, listed, counters, dt) ==
    [n \in EthNics |->
        IF n \in listed /\ counters[n] # None
        THEN [has |-> TRUE, rx |-> Val(counters[n]).rx, tx |-> Val(counters[n]).tx,
              fresh |-> TRUE]
        ELSE [prev[n] EXCEPT !.fresh = FALSE]]

\* collect_snapshot's NIC list followed by NetworkRateTracker.update, as
\* main calls them with the same config: `present` is what psutil reports
\* to collect_snapshot, `counters` what it reports to update, `now` is
\* time.time().
NetworkRateTracker_update ==
    \E cfg \in TrackerConfigs, present \in PresentNics, now \in Times :
      \E counters \in NetCounters(SnapshotNics(cfg, present)) :
        LET listed == SnapshotNics(cfg, present)
            dt == ElapsedTime(tracker_initialized, tracker_prev_time, now)
            nics == [n \in listed |-> AnnotateNic(n, tracker_prev, counters, dt)]
        IN  /\ snapshot' = [nics |-> nics,
                            networkRxMbps |-> RoundTotal(SumRx(nics, listed)),
                            networkTxMbps |-> RoundTotal(SumTx(nics, listed)),
                            at |-> now]
            /\ tracker_prev' = NextPrev(tracker_prev, listed, counters, dt)
            /\ tracker_prev_time' = now
            /\ tracker_initialized' = TRUE
            /\ tracker_updates' = Min(tracker_updates + 1, MaxUpdates)
            /\ UNCHANGED << pc, running, file, args_interval, file0, serverVars, local_cfg,
                            token, monitor_config, retry_count, interval,
                            known_config_version, need_config_refresh, sleep_left >>
            /\ UNCHANGED << reg_requests, reg_result, cfg_result, resp, recorded,
                            tick_reports, tick_refreshes, refresh_result >>

\* A freshly constructed tracker in a process whose other state does not matter here.
TrackerInit ==
    /\ ProcessInit
    /\ file = NoFile
    /\ args_interval = None
    /\ FreshTracker
    /\ ServerUnmodelled

TrackerNext == NetworkRateTracker_update

TrackerSpec == TrackerInit /\ [][TrackerNext]_vars

\* ------------------------------------------------ agent against a server

\* The server as the agent sees it through GET /api/monitoring/config and
\* the configVersion of report responses: an admin may replace the config,
\* which bumps the version, until the config is left alone for good.
ServerChange ==
    /\ ~srv_frozen
    /\ srv_version < VersionSpan
    /\ srv_version' = srv_version + 1
    /\ srv_config' \in Configs \ {srv_config}
    /\ UNCHANGED srv_frozen
    /\ UNCHANGED << pc, running, file, args_interval, file0, trackerVars >>
    /\ UNCHANGED programVars
    /\ UNCHANGED historyVars

\* From here on the server's config and version stay fixed.
ServerFreeze ==
    /\ ~srv_frozen
    /\ srv_frozen' = TRUE
    /\ UNCHANGED << srv_config, srv_version >>
    /\ UNCHANGED << pc, running, file, args_interval, file0, trackerVars >>
    /\ UNCHANGED programVars
    /\ UNCHANGED historyVars

\* The initial fetch's response when the server answers with its config, or fails.
ConfigFetched == ConfigResponse /\ (cfg_result' = "200" => monitor_config' = srv_config)

\* A report the server accepts, answering with its current configVersion.
ReportAccepted ==
    ReportResponse /\ resp' = [status |-> "200", configVersion |-> Some(srv_version)]

\* The refresh GET answered with the server's config.
RefreshSucceeds ==
    RefreshResponse /\ refresh_result' = [status |-> "200", config |-> srv_config]

\* The refresh GET answered with a non-200 status, or a RequestException.
RefreshFails == RefreshResponse /\ refresh_result'.status # "200"

\* The steps of main when a token is stored, no signal arrives and every
\* report is accepted.
AgentStep ==
    \/ LoadLocalConfig
    \/ RegisterIfNoToken
    \/ ConfigLoopTop
    \/ ConfigFetched
    \/ ConfigRetrySleep
    \/ ConfigRetryWake
    \/ PrimeTracker
    \/ ReportLoopTop
    \/ ReportAccepted
    \/ RefreshSucceeds
    \/ RefreshFails
    \/ ReportSleep
    \/ ReportWake

LiveInit ==
    /\ ProcessInit
    /\ file = Doc("t0", server_url)
    /\ args_interval = None
    /\ FreshTracker
    /\ srv_config \in Configs
    /\ srv_version = 0
    /\ srv_frozen = FALSE

LiveNext == ServerChange \/ ServerFreeze \/ AgentStep

\* The process keeps running (weak fairness of its steps), and a config
\* fetch attempted again and again eventually succeeds (strong fairness of
\* the successful responses).
LiveSpec ==
    /\ LiveInit
    /\ [][LiveNext]_vars
    /\ WF_vars(AgentStep)
    /\ SF_vars(ConfigFetched /\ cfg_result' = "200")
    /\ SF_vars(RefreshSucceeds)

\* ------------------------------------------------------------ claims

\* Positions of the initial config fetch (the "starting" state once a token
\* is at hand), of the two interruptible-by-design waits, and of the loop.
ConfigStage == {"cfg_top", "cfg_req", "cfg_sleep"}
Waits == {"cfg_sleep", "sleep"}
ReportStage == {"loop_top", "report_req", "refresh_req", "sleep"}

\* The local state the process started with holds a token.
StartedWithToken == file0.kind = "json" /\ Truthy(file0.token)

\* C1: in a tick, no refresh is sent before the report's response; after a
\* successful report the number of refreshes sent in the tick is 1 when an
\* earlier report succeeded and recorded a different configVersion (a
\* missing field counting as 0), and 0 otherwise, for any integer versions.
C1_RefreshExactlyOnVersionChange ==
    /\ pc = "report_req" => tick_refreshes = 0
    /\ (pc \in {"refresh_req", "sleep"} /\ resp.status = "200") =>
            tick_refreshes =
                IF recorded # None /\ ServerVersion(resp) # Val(recorded) THEN 1 ELSE 0
    /\ pc = "refresh_req" => tick_refreshes = 1

\* C1 restricted to the versions the code handles as intended: the same
\* statement when every recorded version is non-negative.
C1_HoldsForNonNegativeVersions ==
    (known_config_version >= 0 /\ (recorded = None \/ Val(recorded) >= 0))
        => C1_RefreshExactlyOnVersionChange

\* C2: the registration endpoint is contacted at most once; never when the
\* loaded state holds a token; exactly once, and not again after its
\* outcome, when the loaded state holds none.
C2_RegisterAtMostOnce ==
    /\ reg_requests <= 1
    /\ StartedWithToken => (reg_requests = 0 /\ reg_result = "none")
    /\ (file0.kind # "truncated" /\ ~StartedWithToken /\ pc \notin {"load", "step2"})
            => reg_requests = 1
    /\ reg_result # "none" => (reg_requests = 1 /\ pc # "reg_req")

C2_Witness == pc = "exit1" /\ reg_result = "error" /\ reg_requests = 1

\* C3: once registration has ended in 409, another non-success status or a
\* transport failure, the process is at sys.exit(1) for good: no config
\* fetch or report was or will be sent, and the file is as it was at start.
C3_RegistrationFailureTerminal ==
    reg_result \in {"409", "401", "500", "error"} =>
        /\ pc = "exit1"
        /\ file = file0
        /\ cfg_result = "none"
        /\ resp = NoResp
        /\ tick_reports = 0
        /\ tick_refreshes = 0

C3_Witness == reg_result = "409" /\ pc = "exit1" /\ file = NoFile

\* C4: the file changes only in save_local_config right after a 200
\* registration response; once the first config fetch has been sent after a
\* registration the file holds the issued token and the server URL; a run
\* that started with a token never changes the file.
C4_FileWrittenOnlyByRegistration ==
    /\ [][file' # file => (reg_result = "200" /\ pc \in {"save_open", "save_dump"}
                            /\ ~StartedWithToken)]_vars
    /\ []((reg_result = "200" /\ pc \in ConfigStage \cup ReportStage \cup {"prime"})
            => (file = Doc(token, server_url) /\ token \in IssuedTokens))
    /\ [](StartedWithToken => file = file0)
    /\ [][(pc = "reg_req" /\ reg_result' = "200" /\ pc' # "crashed") => pc' = "save_open"]_vars

C4_Witness ==
    /\ pc = "cfg_req" /\ cfg_result = "none" /\ reg_result = "200"
    /\ file0 = NoFile /\ file = Doc("t1", server_url)

\* C5: each failed attempt of the initial config fetch (transport failure
\* or a status other than 200 and 401) is followed by the fixed retry wait
\* and then by another attempt, however many attempts have failed; the
\* config stage is left only by a 200, by a 401 or by the signal; no report
\* is sent while in it.
C5_InitialFetchRetriesForever ==
    /\ [][(pc = "cfg_req" /\ pc' # "cfg_req" /\ cfg_result' \notin {"200", "401"})
            => (pc' = "cfg_sleep" /\ sleep_left' = RETRY_DELAY)]_vars
    /\ [][(pc = "cfg_sleep" /\ pc' # "cfg_sleep") => (sleep_left = 0 /\ pc' = "cfg_top")]_vars
    /\ [][(pc = "cfg_top" /\ pc' # "cfg_top" /\ running) => pc' = "cfg_req"]_vars
    /\ [][(pc \in ConfigStage /\ pc' \notin ConfigStage) =>
            \/ (pc' = "prime" /\ cfg_result' = "200")
            \/ (pc' = "exit1" /\ cfg_result' = "401")
            \/ (pc' = "stopped" /\ ~running)]_vars
    /\ [](pc \in ConfigStage => (tick_reports = 0 /\ resp = NoResp))

C5_Witness ==
    pc = "cfg_req" /\ retry_count > RETRY_WARN_AFTER /\ cfg_result = "error" /\ running

\* C6: after a 401 on the initial config fetch or on a report the process
\* is at sys.exit(1) for good, with no request sent after the rejected one.
C6_TokenRejectionTerminal ==
    (cfg_result = "401" \/ resp.status = "401") =>
        /\ pc = "exit1"
        /\ tick_refreshes = 0
        /\ tick_reports = (IF resp.status = "401" THEN 1 ELSE 0)
        /\ refresh_result = NoConfigResp

C6_Witness == resp.status = "401" /\ pc = "exit1" /\ known_config_version >= 0

\* C7: once the signal has been delivered during the retry wait or the
\* inter-tick sleep, no further unit of that wait elapses.
C7_WaitCutShort ==
    [][(pc \in Waits /\ ~running) => ~(pc' \in Waits /\ sleep_left' < sleep_left)]_vars

\* C8: an attempt of the initial config fetch and a report tick begin only
\* while `running` is still true; a loop top reached after the signal leads
\* to the stopped state; the stopped state is never left, so no report,
\* config fetch or refresh is sent from it.
C8_NoNewWorkAfterSignal ==
    /\ [][(pc # "cfg_req" /\ pc' = "cfg_req") => running]_vars
    /\ [][(pc # "report_req" /\ pc' = "report_req") => running]_vars
    /\ [][(pc \in {"cfg_top", "loop_top"} /\ ~running /\ pc' # pc) => pc' = "stopped"]_vars
    /\ [][pc = "stopped" => (pc' = "stopped" /\ UNCHANGED historyVars)]_vars
    /\ [](pc = "stopped" => ~running)

C8_Witness == pc = "stopped" /\ ~running /\ tick_refreshes = 1 /\ refresh_result.status = "200"

\* C9: a tick sends at most one report; a report that fails with a transport
\* failure or a status other than 200 and 401 changes neither monitor_config
\* nor interval nor known_config_version, sends no refresh and goes to the
\* sleep; after the sleep the loop top sends a new report while running.
C9_FailedReportDropped ==
    /\ [](tick_reports <= 1)
    /\ [][(pc = "report_req" /\ pc' # "report_req" /\ resp'.status \notin {"200", "401"})
            => /\ monitor_config' = monitor_config
               /\ interval' = interval
               /\ known_config_version' = known_config_version
               /\ tick_refreshes' = 0
               /\ pc' = "sleep"]_vars
    /\ []((pc = "sleep" /\ resp.status \notin {"200", "401"})
            => (tick_refreshes = 0 /\ refresh_result = NoConfigResp))
    /\ [][(pc = "sleep" /\ pc' # "sleep") => pc' = "loop_top"]_vars
    /\ [][(pc = "loop_top" /\ running /\ pc' # "loop_top")
            => (pc' = "report_req" /\ tick_reports' = 1)]_vars

C9_Witness ==
    pc = "loop_top" /\ running /\ resp.status = "500" /\ known_config_version = 1

\* C10: a refresh whose 200 response carries a config equal to the current
\* one leaves monitor_config and interval unchanged; one that carries a
\* different config makes monitor_config exactly the fetched config.
C10_RefreshNoOpOrWholesale ==
    [][(pc = "refresh_req" /\ pc' # "refresh_req" /\ refresh_result'.status = "200")
        => IF refresh_result'.config = monitor_config
           THEN monitor_config' = monitor_config /\ interval' = interval
           ELSE monitor_config' = refresh_result'.config]_vars

C10_Witness ==
    /\ pc = "sleep" /\ refresh_result.status = "200"
    /\ monitor_config = refresh_result.config
    /\ monitor_config.reportIntervalSec = None /\ monitor_config.nicNames # None
    /\ interval = DEFAULT_REPORT_INTERVAL

\* C11: a refresh whose fetch ends in a transport failure or in any status
\* other than 200 (401 included) is the tick's only attempt, leaves
\* monitor_config and interval as they were, and is followed by the sleep
\* and the next loop top, never by an exit.
C11_RefreshFailureSwallowed ==
    /\ [](tick_refreshes <= 1)
    /\ [][(pc = "refresh_req" /\ pc' # "refresh_req" /\ refresh_result'.status # "200")
            => /\ monitor_config' = monitor_config
               /\ interval' = interval
               /\ tick_refreshes' = 1
               /\ pc' = "sleep"
               /\ sleep_left' = interval]_vars
    /\ [](refresh_result.status \notin {"none", "200"}
            => pc \in {"sleep", "loop_top", "stopped"})
    /\ [][(pc = "sleep" /\ refresh_result.status \notin {"none", "200"} /\ pc' # "sleep")
            => pc' = "loop_top"]_vars

C11_Witness ==
    pc = "loop_top" /\ running /\ refresh_result.status = "401" /\ tick_refreshes = 1

\* C12: with an explicit --interval, whatever its value, every inter-tick
\* sleep lasts the override; without one, the sleep that follows a refresh
\* which fetched a config lasts that config's report interval.
C12_IntervalFollowsOverrideOrRefresh ==
    /\ (args_interval # None /\ pc = "sleep")
            => (interval = Val(args_interval) /\ sleep_left <= Val(args_interval))
    /\ (args_interval = None /\ pc = "sleep" /\ refresh_result.status = "200")
            => interval = GetReportInterval(refresh_result.config)

\* C12 for the override values the code treats as an override throughout:
\* the same statement when --interval is absent or non-zero.
C12_HoldsForNonZeroOverride ==
    args_interval # Some(0) => C12_IntervalFollowsOverrideOrRefresh

\* C16: from the moment a save begins, the file is either what it was before
\* or the complete new document; never empty or partly written.
C16_SaveAtomic ==
    (pc \in {"save_open", "save_dump"} \/ reg_result = "200")
        => file \in {file0, Doc(local_cfg.token, local_cfg.server)}

\* C19: without --interval, throughout the report loop `interval` is the
\* reportIntervalSec of the monitor_config in use (5 when it has none), and
\* every inter-tick sleep starts with exactly that duration.
C19_IntervalTracksConfig ==
    /\ []((args_interval = None /\ pc \in ReportStage)
            => interval = GetReportInterval(monitor_config))
    /\ [][(args_interval = None /\ pc # "sleep" /\ pc' = "sleep")
            => sleep_left' = GetReportInterval(monitor_config')]_vars

C19_Witness ==
    /\ args_interval = None /\ pc = "sleep" /\ sleep_left = 1
    /\ refresh_result.status = "200" /\ monitor_config.reportIntervalSec = Some(1)
    /\ resp.status = "200" /\ tick_refreshes = 1

\* C17: a report request is sent only with a token at hand, after a 200 on
\* the initial config fetch and on a tracker that is already initialized;
\* the token precedes the config fetch, the config precedes the tracker; and
\* before the first tick the tracker has been updated exactly once.
C17_ReportOnlyWhenRunning ==
    /\ [][(pc # "report_req" /\ pc' = "report_req")
            => (Truthy(token) /\ cfg_result = "200" /\ tracker_initialized
                /\ tracker_updates >= 1)]_vars
    /\ [](cfg_result # "none" => Truthy(token))
    /\ [](tracker_updates > 0 => (cfg_result = "200" /\ tracker_initialized))
    /\ [](tracker_updates = 0 => (~tracker_initialized /\ tick_reports = 0 /\ resp = NoResp))
    /\ []((pc = "loop_top" /\ tick_reports = 0) => tracker_updates = 1)

C17_Witness ==
    /\ pc = "report_req" /\ recorded = None /\ known_config_version = -1
    /\ reg_result = "200" /\ tracker_updates = 2

\* ---- the tracker's claims, checked under TrackerSpec

Listed(s) == DOMAIN s.nics

RECURSIVE SumOver(_, _)
SumOver(f, S) ==
    IF S = {} THEN 0
    ELSE LET n == CHOOSE x \in S : TRUE IN f[n] + SumOver(f, S \ {n})

\* C13: every per-NIC rxMbps and txMbps written into a snapshot is
\* non-negative, and when a listed NIC's counter is below its previous
\* recorded sample the rate of that direction is exactly 0.
C13_RatesNonNegative ==
    /\ [](\A n \in Listed(snapshot) :
            snapshot.nics[n].rxMbps >= 0 /\ snapshot.nics[n].txMbps >= 0)
    /\ [][\A n \in Listed(snapshot') :
            (snapshot'.nics[n].cur # None /\ tracker_prev[n].has)
                => /\ (Val(snapshot'.nics[n].cur).rx < tracker_prev[n].rx
                          => snapshot'.nics[n].rxMbps = 0)
                   /\ (Val(snapshot'.nics[n].cur).tx < tracker_prev[n].tx
                          => snapshot'.nics[n].txMbps = 0)]_vars

\* A rate window (txMbps > 0) in which eth0's bytes_recv went down.
C13_Witness ==
    /\ "eth0" \in Listed(snapshot)
    /\ snapshot.nics["eth0"].dropped
    /\ snapshot.nics["eth0"].txMbps > 0
    /\ snapshot.nics["eth0"].rxMbps = 0

\* C14: after every update the two totals are the sums of the listed NICs'
\* rates; a listed NIC with no prior sample or with no counter has rate 0,
\* and a NIC the filter excludes is not listed.
C14_TotalsAreSums ==
    /\ [](/\ snapshot.networkRxMbps
                = SumOver([n \in Listed(snapshot) |-> snapshot.nics[n].rxMbps],
                          Listed(snapshot))
          /\ snapshot.networkTxMbps
                = SumOver([n \in Listed(snapshot) |-> snapshot.nics[n].txMbps],
                          Listed(snapshot))
          /\ "lo" \notin Listed(snapshot)
          /\ \A n \in Listed(snapshot) :
                snapshot.nics[n].cur = None
                    => (snapshot.nics[n].rxMbps = 0 /\ snapshot.nics[n].txMbps = 0))
    /\ [][\A n \in Listed(snapshot') :
            ~tracker_prev[n].has
                => (snapshot'.nics[n].rxMbps = 0 /\ snapshot'.nics[n].txMbps = 0)]_vars

\* Both interfaces listed, each with a positive receive rate, eth1 also sending.
C14_Witness ==
    /\ Listed(snapshot) = EthNics
    /\ snapshot.nics["eth0"].rxMbps > 0
    /\ snapshot.nics["eth1"].rxMbps > 0
    /\ snapshot.nics["eth1"].txMbps > 0
    /\ snapshot.networkRxMbps = snapshot.nics["eth0"].rxMbps + snapshot.nics["eth1"].rxMbps

\* C15: an update on a fresh tracker, or one whose time.time() is not after
\* the previous call's, writes 0 into every rate and both totals, and
\* records the counters of the listed NICs and the timestamp.
C15_ZeroRateTickStillRecords ==
    [][(~tracker_initialized \/ snapshot'.at - tracker_prev_time <= 0)
        => /\ \A n \in Listed(snapshot') :
                 snapshot'.nics[n].rxMbps = 0 /\ snapshot'.nics[n].txMbps = 0
           /\ snapshot'.networkRxMbps = 0
           /\ snapshot'.networkTxMbps = 0
           /\ \A n \in Listed(snapshot') :
                 snapshot'.nics[n].cur # None
                    => /\ tracker_prev'[n].has
                       /\ tracker_prev'[n].rx = Val(snapshot'.nics[n].cur).rx
                       /\ tracker_prev'[n].tx = Val(snapshot'.nics[n].cur).tx
           /\ tracker_prev_time' = snapshot'.at
           /\ tracker_initialized']_vars

\* A second or later call at time 0 (so not after the previous call) that
\* read a non-zero counter for eth0.
C15_Witness ==
    /\ tracker_updates = 2
    /\ snapshot.at = 0
    /\ "eth0" \in Listed(snapshot)
    /\ snapshot.nics["eth0"].cur # None
    /\ tracker_prev["eth0"].rx = 62500
    /\ tracker_prev["eth0"].fresh
    /\ snapshot.nics["eth0"].rxMbps = 0

\* C18: whenever a rate is computed for a NIC, the previous sample it is
\* computed from was recorded at the immediately preceding update call.
C18_PrevSampleFromPrecedingCall ==
    \A n \in Listed(snapshot) : ~snapshot.nics[n].stale

\* ---- liveness of the config refresh, checked under LiveSpec

\* C20: once a report has signalled a changed configVersion (the agent is
\* about to refresh) and the server's config and version stay fixed, the
\* agent's monitor_config eventually equals the server's config.
C20_ConfigEventuallyFollowsServer ==
    (srv_frozen /\ pc = "refresh_req") ~> (monitor_config = srv_config)

\* The same, for the runs in which the refresh that the signal triggers does
\* not fail: it holds there.
C20_HoldsWhenRefreshSucceeds ==
    (srv_frozen /\ pc = "refresh_req")
        ~> (monitor_config = srv_config \/ refresh_result.status \notin {"200", "none"})

====
